---- MODULE Spec2Model ----
(***************************************************************************)
(* A model of loraMac.py: the LoRaWAN network-server core (LoRaMac), its   *)
(* device sessions (LoRaEndDevice), the join transaction and the downlink  *)
(* scheduling, run by several threads.                                     *)
(*                                                                         *)
(* Abstractions.  AES-CMAC and AES-ECB are symbolic: a MIC, a session key  *)
(* and an encrypted join-accept are records of the key and the bytes they  *)
(* were computed from (two outputs are equal exactly when key and input    *)
(* are equal).  Frequencies are integers in units of 0.1 MHz.  Python      *)
(* objects are object identifiers; every LoRaEndDevice ever constructed    *)
(* keeps its identifier, whether or not a map still refers to it.  One     *)
(* step of a thread is one access to shared data (the interpreter lock     *)
(* makes a single dictionary, set or deque operation atomic).              *)
(***************************************************************************)
EXTENDS Integers, Sequences, FiniteSets, TLC

(* ------------------------------ bounds -------------------------------- *)
\* number of API calls (uplinks, direct downlinks, direct puts) in a run
MaxCalls == 2
\* number of direct putDownlinkMsg calls in a run of the queue scenario
MaxQueuePuts == 36
\* messages put, the join-accept included, in the scenario of C16
MaxWindowPuts == 3
\* channels below the lowest and above the highest one of a plan for which
\* getUplinkChannelFromFreq is applied
MaxChannelOffset == 70
\* longest buffer given to padToBlockSize
MaxPadLen == 48

(* ------------------------- program constants -------------------------- *)
DOWNLINK_QUEUE_MAX_SIZE == 32
CRYPTO_BLOCK_SIZE == 16

RX_WINDOW_1 == 1
RX_WINDOW_2 == 2
JOIN_ACCEPT_WINDOW_1 == 3
JOIN_ACCEPT_WINDOW_2 == 4

MTYPE_JOIN_REQUEST == 0
MTYPE_JOIN_ACCEPT == 1
MTYPE_UNCONFIRMED_DATA_UP == 2
MAJOR_VERSION_LORAWAN == 0

\* channel plan, in units of 0.1 MHz
UPSTREAM_BW125_LOWEST_FREQ == 9023
UPSTREAM_BW125_SPACING == 2
UPSTREAM_BW125_NUM_CHAN == 64
UPSTREAM_BW500_LOWEST_FREQ == 9030
UPSTREAM_BW500_SPACING == 16
UPSTREAM_BW500_NUM_CHAN == 8
DOWNSTREAM_BW500_LOWEST_FREQ == 9233
DOWNSTREAM_BW500_SPACING == 6
DOWNSTREAM_BW500_NUM_CHAN == 8

\* LoRaEndDevice.__init__ defaults
dlModulation == "LORA"
dlIpol == TRUE
rx2Freq == 9233
rx2Datarate == "SF10BW500"
rx2Codingrate == "4/5"
receiveDelay1_usec == 1000000
joinAcceptDelay1_usec == 5000000
joinAcceptDelay2_usec == 6000000

\* the shift and the masks of genDevAddr and LoRaMac.__init__
NetworkAddrBits == 25
NetworkIDMask == 127

(* ------------------------------ inputs -------------------------------- *)
\* Python's None, where the other values are integers
None == -1
\* the worker threads of the connection layer, one per gateway connection
Threads == {"t1", "t2"}
\* identifiers of the LoRaEndDevice objects registerEndDevice may construct
Objs == {1, 2}
\* (appEUI, devEUI) pairs that get registered, and one that never is
RegEUIList == << <<1, 2>>, <<1, 3>> >>
RegEUIs == {RegEUIList[i] : i \in DOMAIN RegEUIList}
OtherEUIs == {<<9, 9>>}
AppKeys == {"key0"}
Gateways == {"gwA", "gwB"}
\* the gateway whose uplinks a thread handles
GatewayOf(t) == IF t = "t1" THEN "gwA" ELSE "gwB"
\* configured network identifiers: 131 is 3 with a bit above the low seven
ConfiguredNetworkIDs == {131}
\* the values random.randint(0, (1<<25)-1) draws in genDevAddr
NetAddrs == {0, 1}
\* the values random.randint(0, (1<<24)-1) draws in handleJoinRequest
AppNonces == {0}
DevNonces == {7}
Tmsts == {1000}
\* 902.5 MHz (125 kHz channel 1)
Freqs == {9025}
Datarates == {"SF10BW125", "SF7BW125"}
Codingrates == {"4/5"}

(* ------------------------------- state -------------------------------- *)
VARIABLES
    configuredNetworkID, \* the networkID argument of LoRaMac.__init__
    networkID,           \* LoRaMac.networkID
    netID,               \* LoRaMac.netID
    sendToGateway,       \* LoRaMac.sendToGateway: "fn" or None
    euiToDevMap,         \* LoRaMac.euiToDevMap: (appEUI, devEUI) -> object
    addrToDevMap,        \* LoRaMac.addrToDevMap: devAddr -> object
    sessions,            \* the LoRaEndDevice objects constructed so far
    lock,                \* LoRaEndDevice.lock (an RLock): owner and count
    pc,                  \* each thread's position
    call,                \* each thread's arguments and local variables
    result,              \* what each thread's call returned or raised
    nextMsgId,           \* identity of the next DownlinkMessage object
    popped,              \* identities of the messages popleft() returned
    sentCount,           \* per message identity, times handed to the sender
    nCalls               \* API calls started so far

registryVars == <<configuredNetworkID, networkID, netID, sendToGateway,
                  euiToDevMap, addrToDevMap>>
threadVars == <<pc, call, result>>
ghostVars == <<nextMsgId, popped, sentCount, nCalls>>
vars == <<registryVars, sessions, lock, threadVars, ghostVars>>

(* --------------------------- pure functions --------------------------- *)
Pow2(n) == 2^n

\* x >> n and x << n on non-negative integers
ShiftRight(x, n) == x \div Pow2(n)
ShiftLeft(x, n) == x * Pow2(n)

\* x & mask, for a mask of the form 2^k - 1
AndMask(x, mask) == x % (mask + 1)

\* a | b for a whose low NetworkAddrBits bits are zero and b below 2^NetworkAddrBits
OrDisjoint(a, b) == a + b

\* bits 25..31 of a 32-bit address
Top7(devAddr) == ShiftRight(devAddr, NetworkAddrBits)

\* struct.unpack(">Q", bytearray(list))[0]
RECURSIVE UnpackBigEndian(_)
UnpackBigEndian(bytes) ==
    IF bytes = <<>> THEN 0
    ELSE UnpackBigEndian(SubSeq(bytes, 1, Len(bytes) - 1)) * 256
         + bytes[Len(bytes)]

\* the 8-element list form of a small identifier
AsList8(n) == <<0, 0, 0, 0, 0, 0, 0, n>>

\* Python 2 round(n / d) for integers n and d > 0: half away from zero
Round(n, d) ==
    IF n >= 0 THEN (2 * n + d) \div (2 * d)
    ELSE -((2 * (-n) + d) \div (2 * d))

\* "500" in ulDatarate
Contains500(ulDatarate) ==
    ulDatarate \in {"SF10BW500", "SF7BW500", "SF8BW500", "SF12BW500"}

\* a channel number that is not reduced modulo the number of channels
getUplinkChannelFromFreqNoWrap(ulDatarate, ulFreq) ==
    IF Contains500(ulDatarate)
    THEN Round(ulFreq - UPSTREAM_BW500_LOWEST_FREQ, UPSTREAM_BW500_SPACING)
    ELSE Round(ulFreq - UPSTREAM_BW125_LOWEST_FREQ, UPSTREAM_BW125_SPACING)

\* LoRaMac.getUplinkChannelFromFreq, frequencies in units of 0.1 MHz
getUplinkChannelFromFreq(ulDatarate, ulFreq) ==
    IF Contains500(ulDatarate)
    THEN Round(ulFreq - UPSTREAM_BW500_LOWEST_FREQ, UPSTREAM_BW500_SPACING)
         % UPSTREAM_BW500_NUM_CHAN
    ELSE Round(ulFreq - UPSTREAM_BW125_LOWEST_FREQ, UPSTREAM_BW125_SPACING)
         % UPSTREAM_BW125_NUM_CHAN

getRxWindow1Freq(ulChannel) ==
    DOWNSTREAM_BW500_LOWEST_FREQ
    + (ulChannel % DOWNSTREAM_BW500_NUM_CHAN) * DOWNSTREAM_BW500_SPACING

\* the assertion of getRxWindow1DataRate
RxWindow1DataRateAsserts(ulDatarate) == ulDatarate = "SF10BW125"

getRxWindow1DataRate(ulDatarate) == "SF10BW500"

\* a second receive window that opens together with the first
getRxWindowDelayUsecSameWindow(rxWindow) ==
    IF rxWindow = RX_WINDOW_1 THEN receiveDelay1_usec
    ELSE IF rxWindow = RX_WINDOW_2 THEN receiveDelay1_usec
    ELSE IF rxWindow = JOIN_ACCEPT_WINDOW_1 THEN joinAcceptDelay1_usec
    ELSE IF rxWindow = JOIN_ACCEPT_WINDOW_2 THEN joinAcceptDelay2_usec
    ELSE receiveDelay1_usec

\* LoRaEndDevice.getRxWindowDelayUsec
getRxWindowDelayUsec(rxWindow) ==
    IF rxWindow = RX_WINDOW_1 THEN receiveDelay1_usec
    ELSE IF rxWindow = RX_WINDOW_2 THEN receiveDelay1_usec + 1000000
    ELSE IF rxWindow = JOIN_ACCEPT_WINDOW_1 THEN joinAcceptDelay1_usec
    ELSE IF rxWindow = JOIN_ACCEPT_WINDOW_2 THEN joinAcceptDelay2_usec
    ELSE receiveDelay1_usec

\* mtype = (mhdrByte >> 5) & 0b111
MType(mhdrByte) == AndMask(ShiftRight(mhdrByte, 5), 7)

\* len(buf) after padToBlockSize for len(byteStr) = n: bytearray([0] * k) is
\* empty for k <= 0
padToBlockSizeLen(n) ==
    IF n % CRYPTO_BLOCK_SIZE # 0
    THEN n + (IF CRYPTO_BLOCK_SIZE - n > 0 THEN CRYPTO_BLOCK_SIZE - n ELSE 0)
    ELSE n

\* LoRaMacCrypto.padToBlockSize on a buffer given as a sequence of bytes:
\* [0] * k is the empty list for k <= 0
padToBlockSize(byteStr) ==
    IF Len(byteStr) % CRYPTO_BLOCK_SIZE # 0
    THEN byteStr \o [i \in 1..(CRYPTO_BLOCK_SIZE - Len(byteStr)) |-> 0]
    ELSE byteStr

\* the assertion of padToBlockSize
PadToBlockSizeAsserts(buf) == Len(buf) % CRYPTO_BLOCK_SIZE = 0

\* AES-CMAC with the AppKey over the bytes, first 4 bytes (symbolic)
computeJoinMic(appKeyStr, bytes) ==
    [alg |-> "cmac", key |-> appKeyStr, over |-> bytes]

\* AES-ECB encrypt of the 16-byte block (symbolic)
deriveSessionKey(appKeyStr, prefix, appNonce, netid, devNonce) ==
    [alg |-> "ecb-encrypt", key |-> appKeyStr,
     block |-> <<prefix, appNonce, netid, devNonce>>]

\* AES-ECB decrypt of payload + mic (symbolic)
encryptJoinAccept(appKeyStr, payload, mic) ==
    [alg |-> "ecb-decrypt", key |-> appKeyStr, payload |-> payload, mic |-> mic]

\* the bytes of a join-request frame before its MIC
JoinRequestBytes(mhdrByte, appEUI, devEUI, devNonce) ==
    <<mhdrByte, appEUI, devEUI, devNonce>>

\* DownlinkMessage.__init__
DownlinkMessage(id, payloadByteStr, payloadLen, rxWindow) ==
    [id |-> id, payloadSize |-> payloadLen, rxWindow |-> rxWindow,
     payloadBase64 |-> <<"b64", payloadByteStr>>]

\* a deque without maxlen: append never evicts
dequeAppendUnbounded(dlQueue, msg) == Append(dlQueue, msg)

\* deque(maxlen = DOWNLINK_QUEUE_MAX_SIZE).append(msg)
dequeAppend(dlQueue, msg) ==
    IF Len(dlQueue) >= DOWNLINK_QUEUE_MAX_SIZE
    THEN Append(Tail(dlQueue), msg)
    ELSE Append(dlQueue, msg)

\* a session that always claims to have a pending downlink
hasPendingDownlinkAlways(dev) == TRUE

\* LoRaEndDevice.hasPendingDownlink
hasPendingDownlink(dev) == Len(sessions[dev].dlQueue) # 0

\* the empty byte string, where the other values are symbolic cipher outputs
EmptyStr == [alg |-> "empty"]

\* LoRaEndDevice.__init__
LoRaEndDevice(appEUI, devEUI, appKeyStr) ==
    [appEUI |-> appEUI, devEUI |-> devEUI, appKeyStr |-> appKeyStr,
     devAddr |-> None, nwkSKeyStr |-> EmptyStr, appSKeyStr |-> EmptyStr,
     joined |-> FALSE, gateways |-> {}, dlQueue |-> <<>>]

\* LoRaMac.getDevFromEUI
getDevFromEUI(appEUI, devEUI) ==
    IF <<appEUI, devEUI>> \in DOMAIN euiToDevMap
    THEN euiToDevMap[<<appEUI, devEUI>>]
    ELSE None

(* ------------------------------- locks -------------------------------- *)
\* a lock that excludes nobody
CanAcquireAlways(dev, t) == TRUE

\* RLock.acquire does not block: the lock is free or the caller owns it
CanAcquire(dev, t) == lock[dev].owner = "free" \/ lock[dev].owner = t

Acquired(dev, t) ==
    [lock EXCEPT ![dev] = [owner |-> t, count |-> lock[dev].count + 1]]

\* a with block that keeps the lock on exit
ReleasedNever(dev, t) == lock

\* RLock.release: the count drops, and at zero the lock is free
Released(dev, t) ==
    [lock EXCEPT ![dev] =
        IF lock[dev].count <= 1 THEN [owner |-> "free", count |-> 0]
        ELSE [owner |-> lock[dev].owner, count |-> lock[dev].count - 1]]

Holds(dev, t) == lock[dev].owner = t /\ lock[dev].count > 0

(* --------------------------- thread locals ---------------------------- *)
NoMsg == [id |-> 0]
NoDescriptor == [tmst |-> None]

NoCall ==
    [kind |-> "none", gatewayMacAddr |-> "none", eouTimestamp |-> None,
     ulChannel |-> None, ulDatarate |-> "none", ulCodingrate |-> "none",
     devNonce |-> None, dev |-> None, devAddr |-> None, appNonce |-> None,
     dlMsg |-> NoMsg, jsonDict |-> NoDescriptor, iterLen |-> None,
     gwMacAddr |-> "none", dlResult |-> "running",
     ulFreqMHz |-> None, byteStr |-> None, buf |-> None,
     putMsgId |-> None]

(* -------------------------------- Init -------------------------------- *)
\* LoRaMac.__init__(networkID, sendToGatewayFn)
Init ==
    /\ configuredNetworkID \in ConfiguredNetworkIDs
    /\ networkID = AndMask(configuredNetworkID, NetworkIDMask)
    /\ netID = networkID
    /\ sendToGateway \in {"fn", "None"}
    /\ euiToDevMap = <<>>
    /\ addrToDevMap = <<>>
    /\ sessions = <<>>
    /\ lock = <<>>
    /\ pc = [t \in Threads |-> "idle"]
    /\ call = [t \in Threads |-> NoCall]
    /\ result = [t \in Threads |-> "running"]
    /\ nextMsgId = 1
    /\ popped = {}
    /\ sentCount = <<>>
    /\ nCalls = 0

(* --------------------------- registration ----------------------------- *)
\* registerEndDevice with identifiers given as integers or as 8-element
\* lists; any other shape raises before anything is stored
registerEndDevice(appEUI, devEUI, appKey, asList) ==
    LET appEUI_int == IF asList THEN UnpackBigEndian(AsList8(appEUI)) ELSE appEUI
        devEUI_int == IF asList THEN UnpackBigEndian(AsList8(devEUI)) ELSE devEUI
        new == Len(sessions) + 1
    IN  /\ Len(sessions) + 1 \in Objs
        /\ sessions' = Append(sessions, LoRaEndDevice(appEUI_int, devEUI_int, appKey))
        /\ lock' = Append(lock, [owner |-> "free", count |-> 0])
        /\ euiToDevMap' =
             [e \in DOMAIN euiToDevMap \cup {<<appEUI_int, devEUI_int>>} |->
                 IF e = <<appEUI_int, devEUI_int>> THEN new ELSE euiToDevMap[e]]
        /\ UNCHANGED <<configuredNetworkID, networkID, netID, sendToGateway,
                       addrToDevMap, threadVars, ghostVars>>

\* the identifiers are interchangeable: the n-th registration is of one of
\* the first n of them (a new device, or one registered again)
Register ==
    \E i \in DOMAIN RegEUIList, k \in AppKeys, asList \in BOOLEAN :
        /\ i <= Len(sessions) + 1
        /\ registerEndDevice(RegEUIList[i][1], RegEUIList[i][2], k, asList)

(* ------------------------- processRawRxPayload ------------------------ *)
\* an uplink: jsonDict with one field missing ("nofield"), or with a PHY
\* payload that is empty, too short for a join-request, or whole
Uplink(sh, ts, f, d, cr, h, e, dn, k) ==
    [shape |-> sh, tmst |-> ts, freq |-> f, datr |-> d, codr |-> cr,
     mhdrByte |-> h, appEUI |-> e[1], devEUI |-> e[2], devNonce |-> dn,
     mic |-> computeJoinMic(k, JoinRequestBytes(h, e[1], e[2], dn))]

\* whole join-requests: with the frame's MIC under the AppKey, at every
\* datarate, for the identifiers that get registered; and one each with the
\* MIC under another key, and for an identifier that is never registered
JoinUplinks ==
    { Uplink("whole", ts, f, d, cr, MTYPE_JOIN_REQUEST * 32, e, dn, k) :
        ts \in Tmsts, f \in Freqs, d \in Datarates, cr \in Codingrates,
        e \in RegEUIs, dn \in DevNonces, k \in AppKeys }
    \cup
    { Uplink("whole", 1000, 9025, "SF10BW125", "4/5",
             MTYPE_JOIN_REQUEST * 32, x[1], 7, x[2]) :
        x \in (RegEUIs \X {"wrongkey"}) \cup (OtherEUIs \X AppKeys) }

\* the uplinks that differ from a whole join-request: one of each kind
OtherUplinks ==
    { Uplink(x[1], 1000, 9025, "SF10BW125", "4/5", x[2], <<1, 2>>, 7, "key0") :
        x \in {<<"nofield", 0>>, <<"empty", 0>>, <<"short", 0>>,
               <<"short", 64>>, <<"whole", 64>>, <<"whole", 128>>} }

Uplinks == JoinUplinks \cup OtherUplinks

\* a thread between calls: it has made none yet, or its last one has ended
Idle(t) == pc[t] \in {"idle", "done"}

\* what is left of a call's frame once it has ended: the session it was
\* about and the message it popped or put
Ended(c, dlResult) ==
    [NoCall EXCEPT !.kind = c.kind, !.dev = c.dev, !.dlMsg = c.dlMsg,
                   !.dlResult = dlResult]

\* lines 330-370, 379-388: what processRawRxPayload does with an uplink
\* before it changes anything: the exception it raises, the error it
\* returns, or "join" when it goes on to the join transaction
RxOutcome(up) ==
    LET mtype == MType(up.mhdrByte)
        dev == getDevFromEUI(up.appEUI, up.devEUI)
    IN  IF up.shape = "nofield" THEN "KeyError"
        ELSE IF up.shape = "empty" THEN "IndexError"
        ELSE IF mtype = MTYPE_JOIN_REQUEST
        THEN IF up.shape = "short" THEN "struct.error"
             ELSE IF dev = None THEN "-1"
             ELSE IF up.mic # computeJoinMic(sessions[dev].appKeyStr,
                                 JoinRequestBytes(up.mhdrByte, up.appEUI,
                                                  up.devEUI, up.devNonce))
             THEN "-2"
             ELSE "join"
        ELSE IF mtype = MTYPE_UNCONFIRMED_DATA_UP THEN "-1"
        ELSE "-1"

\* the session an uplink is about, once the handler has looked it up
RxDev(up) ==
    IF up.shape = "whole" /\ MType(up.mhdrByte) = MTYPE_JOIN_REQUEST
    THEN getDevFromEUI(up.appEUI, up.devEUI)
    ELSE None

\* a handler that binds the gateway before it rejects the frame
RxRejectBinds(t, res, dev) ==
    /\ pc' = [pc EXCEPT ![t] = "done"]
    /\ result' = [result EXCEPT ![t] = res]
    /\ call' = [call EXCEPT ![t] = [NoCall EXCEPT !.kind = "rx", !.dev = dev]]
    /\ sessions' = IF dev = None THEN sessions
                   ELSE [sessions EXCEPT ![dev].gateways = @ \cup {GatewayOf(t)}]
    /\ UNCHANGED <<registryVars, lock, nextMsgId, popped, sentCount>>

\* processRawRxPayload ends before the join transaction: nothing but the
\* caller's result changes
RxReject(t, res, dev) ==
    /\ pc' = [pc EXCEPT ![t] = "done"]
    /\ result' = [result EXCEPT ![t] = res]
    /\ call' = [call EXCEPT ![t] = [NoCall EXCEPT !.kind = "rx", !.dev = dev]]
    /\ UNCHANGED <<registryVars, sessions, lock, nextMsgId, popped, sentCount>>

\* processRawRxPayload reaches the join transaction's "with dev.lock"
RxAccept(t, gatewayMacAddr, up) ==
    /\ pc' = [pc EXCEPT ![t] = "hj_acquire"]
    /\ result' = [result EXCEPT ![t] = "running"]
    /\ call' = [call EXCEPT ![t] =
                  [NoCall EXCEPT
                     !.kind = "rx",
                     !.gatewayMacAddr = gatewayMacAddr,
                     !.eouTimestamp = up.tmst,
                     !.ulChannel = getUplinkChannelFromFreq(up.datr, up.freq),
                     !.ulDatarate = up.datr,
                     !.ulCodingrate = up.codr,
                     !.dev = getDevFromEUI(up.appEUI, up.devEUI),
                     !.devNonce = up.devNonce]]
    /\ UNCHANGED <<registryVars, sessions, lock, nextMsgId, popped, sentCount>>

\* lines 330-377: from entry to the return of an error, or to the join
\* transaction's "with dev.lock"
processRawRxPayload(t, gatewayMacAddr, up) ==
    /\ Idle(t)
    /\ nCalls < MaxCalls
    /\ nCalls' = nCalls + 1
    /\ IF RxOutcome(up) = "join"
       THEN RxAccept(t, gatewayMacAddr, up)
       ELSE RxReject(t, RxOutcome(up), RxDev(up))

RxStart(t) ==
    \E up \in Uplinks : processRawRxPayload(t, GatewayOf(t), up)

\* line 376: with dev.lock
JoinAcquire(t) ==
    /\ pc[t] = "hj_acquire"
    /\ CanAcquire(call[t].dev, t)
    /\ lock' = Acquired(call[t].dev, t)
    /\ pc' = [pc EXCEPT ![t] = "hj_gen"]
    /\ UNCHANGED <<registryVars, sessions, call, result, ghostVars>>

(* ----------------------------- genDevAddr ----------------------------- *)
\* genDevAddr shifting the network identifier by 24 instead of 25
devAddrCandidateShift24(networkAddr) ==
    OrDisjoint(ShiftLeft(networkID, 24), networkAddr)

\* one candidate of the loop of genDevAddr
devAddrCandidate(networkAddr) ==
    OrDisjoint(ShiftLeft(networkID, NetworkAddrBits), networkAddr)

\* a join transaction that lets a joined session keep its address
genDevAddrKeepsAddr(t, networkAddr) ==
    LET devAddr == IF sessions[call[t].dev].joined
                   THEN sessions[call[t].dev].devAddr
                   ELSE devAddrCandidate(networkAddr)
    IN  /\ pc[t] = "hj_gen"
        /\ IF sessions[call[t].dev].joined \/ devAddr \notin DOMAIN addrToDevMap
           THEN /\ call' = [call EXCEPT ![t].devAddr = devAddr]
                /\ pc' = [pc EXCEPT ![t] = "hj_map"]
           ELSE UNCHANGED <<call, pc>>
        /\ UNCHANGED <<registryVars, sessions, lock, result, ghostVars>>

\* lines 403-408: one iteration; the loop ends when the candidate is no key
\* of addrToDevMap
genDevAddr(t, networkAddr) ==
    LET devAddr == devAddrCandidate(networkAddr)
    IN  /\ pc[t] = "hj_gen"
        /\ IF devAddr \notin DOMAIN addrToDevMap
           THEN /\ call' = [call EXCEPT ![t].devAddr = devAddr]
                /\ pc' = [pc EXCEPT ![t] = "hj_map"]
           ELSE UNCHANGED <<call, pc>>
        /\ UNCHANGED <<registryVars, sessions, lock, result, ghostVars>>

\* the addresses a draw has produced so far and that are still somewhere
Drawn ==
    DOMAIN addrToDevMap \cup {call[u].devAddr : u \in Threads}

\* random.randint: the network addresses are interchangeable, so a draw
\* gives one that has been drawn already or the lowest that has not
GenDevAddr(t) ==
    \E networkAddr \in NetAddrs :
        /\ \A lower \in NetAddrs :
              lower < networkAddr => devAddrCandidate(lower) \in Drawn
        /\ genDevAddr(t, networkAddr)

(* -------------------------- handleJoinRequest ------------------------- *)
\* line 420: self.addrToDevMap[devAddr] = dev
MapInsert(map, devAddr, dev) ==
    [a \in DOMAIN map \cup {devAddr} |-> IF a = devAddr THEN dev ELSE map[a]]

JoinMapInsert(t) ==
    /\ pc[t] = "hj_map"
    /\ addrToDevMap' = MapInsert(addrToDevMap, call[t].devAddr, call[t].dev)
    /\ pc' = [pc EXCEPT ![t] = "hj_addr"]
    /\ UNCHANGED <<configuredNetworkID, networkID, netID, sendToGateway,
                   euiToDevMap, sessions, lock, call, result, ghostVars>>

\* lines 421-440: dev.devAddr = devAddr; appNonce = random.randint(...);
\* both session keys are derived and assigned
JoinSetAddr(t) ==
    LET dev == call[t].dev
        key == sessions[dev].appKeyStr
    IN  /\ pc[t] = "hj_addr"
        /\ \E appNonce \in AppNonces :
              /\ call' = [call EXCEPT ![t].appNonce = appNonce]
              /\ sessions' =
                   [sessions EXCEPT
                      ![dev].devAddr = call[t].devAddr,
                      ![dev].nwkSKeyStr =
                          deriveSessionKey(key, 1, appNonce, netID,
                                           call[t].devNonce),
                      ![dev].appSKeyStr =
                          deriveSessionKey(key, 2, appNonce, netID,
                                           call[t].devNonce)]
        /\ pc' = [pc EXCEPT ![t] = "hj_joined"]
        /\ UNCHANGED <<registryVars, lock, result, ghostVars>>

\* handleJoinRequest without its line 465: the flag is never raised
JoinSetJoinedForgotten(t) ==
    /\ pc[t] = "hj_joined"
    /\ pc' = [pc EXCEPT ![t] = "hj_put"]
    /\ UNCHANGED <<registryVars, sessions, lock, call, result, ghostVars>>

\* line 465: dev.joined = True
JoinSetJoined(t) ==
    /\ pc[t] = "hj_joined"
    /\ sessions' = [sessions EXCEPT ![call[t].dev].joined = TRUE]
    /\ pc' = [pc EXCEPT ![t] = "hj_put"]
    /\ UNCHANGED <<registryVars, lock, call, result, ghostVars>>

\* the join-accept tagged with the second join-accept window
JoinAcceptMessageWindow2(id, appKeyStr, appNonce, netid, devAddr) ==
    LET mhdr == ShiftLeft(MTYPE_JOIN_ACCEPT, 5) + MAJOR_VERSION_LORAWAN
        payload == [appNonce |-> appNonce, netID |-> netid,
                    devAddr |-> devAddr, dlSettings |-> 0, rxDelay |-> 0]
        mic == computeJoinMic(appKeyStr, <<mhdr, payload>>)
        bodyEncrypted == encryptJoinAccept(appKeyStr, payload, mic)
    IN  DownlinkMessage(id, <<mhdr, bodyEncrypted>>,
                        1 + padToBlockSizeLen(12 + 4), JOIN_ACCEPT_WINDOW_2)

\* lines 444-466: the join-accept frame, as a DownlinkMessage
JoinAcceptMessage(id, appKeyStr, appNonce, netid, devAddr) ==
    LET mhdr == ShiftLeft(MTYPE_JOIN_ACCEPT, 5) + MAJOR_VERSION_LORAWAN
        payload == [appNonce |-> appNonce, netID |-> netid,
                    devAddr |-> devAddr, dlSettings |-> 0, rxDelay |-> 0]
        mic == computeJoinMic(appKeyStr, <<mhdr, payload>>)
        bodyEncrypted == encryptJoinAccept(appKeyStr, payload, mic)
    IN  DownlinkMessage(id, <<mhdr, bodyEncrypted>>,
                        1 + padToBlockSizeLen(12 + 4), JOIN_ACCEPT_WINDOW_1)

\* LoRaEndDevice.putDownlinkMsg, by a thread that can take the lock: the
\* lock is taken, the message appended, the lock given back
putDownlinkMsg(dev, msg) ==
    [sessions EXCEPT ![dev].dlQueue = dequeAppend(@, msg)]

\* lines 466-467 and the end of the with block of line 376: the message is
\* queued and the lock given back
JoinPut(t) ==
    LET dev == call[t].dev
        dlMsg == JoinAcceptMessage(nextMsgId, sessions[dev].appKeyStr,
                                   call[t].appNonce, netID, call[t].devAddr)
    IN  /\ pc[t] = "hj_put"
        /\ CanAcquire(dev, t)
        /\ sessions' = putDownlinkMsg(dev, dlMsg)
        /\ nextMsgId' = nextMsgId + 1
        /\ lock' = Released(dev, t)
        /\ call' = [call EXCEPT ![t].devNonce = None, ![t].devAddr = None,
                                ![t].appNonce = None,
                                ![t].putMsgId = nextMsgId]
        /\ pc' = [pc EXCEPT ![t] = "bind"]
        /\ UNCHANGED <<registryVars, result, popped, sentCount, nCalls>>

\* LoRaEndDevice.bindWithGateway
bindWithGateway(dev, gatewayMacAddr) ==
    [sessions EXCEPT ![dev].gateways = @ \cup {gatewayMacAddr}]

\* line 391
Bind(t) ==
    /\ pc[t] = "bind"
    /\ sessions' = bindWithGateway(call[t].dev, call[t].gatewayMacAddr)
    /\ call' = [call EXCEPT ![t].gatewayMacAddr = "none"]
    /\ pc' = [pc EXCEPT ![t] = "dl_acquire"]
    /\ UNCHANGED <<registryVars, lock, result, ghostVars>>

(* --------------------------- doDownlinkToDev -------------------------- *)
\* doDownlinkToDev ends: processRawRxPayload drops its value and returns
\* None; a direct caller gets the value; an exception reaches both
DlFinish(t, value, raised) ==
    /\ pc' = [pc EXCEPT ![t] = "done"]
    /\ result' = [result EXCEPT ![t] =
                    IF raised \/ call[t].kind = "dl" THEN value ELSE "None"]

\* a direct call of doDownlinkToDev(dev, eouTimestamp, ulChannel,
\* ulDatarate, ulCodingrate)
StartDoDownlink(t, dev, eouTimestamp, ulChannel, ulDatarate, ulCodingrate) ==
    /\ Idle(t)
    /\ dev \in DOMAIN sessions
    /\ call' = [call EXCEPT ![t] =
                  [NoCall EXCEPT !.kind = "dl", !.dev = dev,
                                 !.eouTimestamp = eouTimestamp,
                                 !.ulChannel = ulChannel,
                                 !.ulDatarate = ulDatarate,
                                 !.ulCodingrate = ulCodingrate]]
    /\ pc' = [pc EXCEPT ![t] = "dl_acquire"]
    /\ result' = [result EXCEPT ![t] = "running"]
    /\ UNCHANGED <<registryVars, sessions, lock, nextMsgId, popped, sentCount>>

ApiDoDownlink(t) ==
    /\ nCalls < MaxCalls
    /\ nCalls' = nCalls + 1
    /\ \E dev \in Objs, ts \in Tmsts, f \in Freqs, d \in Datarates,
          cr \in Codingrates :
          StartDoDownlink(t, dev, ts, getUplinkChannelFromFreq(d, f), d, cr)

\* line 275: with dev.lock
DlAcquire(t) ==
    /\ pc[t] = "dl_acquire"
    /\ CanAcquire(call[t].dev, t)
    /\ lock' = Acquired(call[t].dev, t)
    /\ pc' = [pc EXCEPT ![t] = "dl_check"]
    /\ UNCHANGED <<registryVars, sessions, call, result, ghostVars>>

\* lines 276-279: nothing queued: return 0, and the with block gives the
\* lock back
DlCheck(t) ==
    /\ pc[t] = "dl_check"
    /\ IF ~hasPendingDownlink(call[t].dev)
       THEN /\ lock' = Released(call[t].dev, t)
            /\ call' = [call EXCEPT ![t] = Ended(call[t], "0")]
            /\ DlFinish(t, "0", FALSE)
       ELSE /\ pc' = [pc EXCEPT ![t] = "dl_pop"]
            /\ UNCHANGED <<lock, call, result>>
    /\ UNCHANGED <<registryVars, sessions, ghostVars>>

\* lines 283-307: the transmit descriptor of a popped message
Descriptor(dlMsg, eouTimestamp, ulChannel, ulDatarate, ulCodingrate) ==
    LET first == dlMsg.rxWindow = RX_WINDOW_1
                 \/ dlMsg.rxWindow = JOIN_ACCEPT_WINDOW_1
    IN  [freq |-> IF first THEN getRxWindow1Freq(ulChannel) ELSE rx2Freq,
         datr |-> IF first THEN getRxWindow1DataRate(ulDatarate)
                  ELSE rx2Datarate,
         codr |-> IF first THEN ulCodingrate ELSE rx2Codingrate,
         tmst |-> eouTimestamp + getRxWindowDelayUsec(dlMsg.rxWindow),
         rfch |-> 0, powe |-> 20, modu |-> dlModulation, ipol |-> dlIpol,
         size |-> dlMsg.payloadSize, data |-> dlMsg.payloadBase64]

\* lines 280-307 and the end of the with block: dlMsg = dev.popDownlinkMsg()
\* (popleft() of an empty deque raises IndexError), the descriptor is built
\* (the assertion of getRxWindow1DataRate may fail), the lock is given back
DlPop(t) ==
    LET c == call[t]
        dev == c.dev
        q == sessions[dev].dlQueue
        dlMsg == Head(q)
        first == dlMsg.rxWindow = RX_WINDOW_1
                 \/ dlMsg.rxWindow = JOIN_ACCEPT_WINDOW_1
        popd == [c EXCEPT !.dlMsg = dlMsg]
    IN  /\ pc[t] = "dl_pop"
        /\ CanAcquire(dev, t)
        /\ lock' = Released(dev, t)
        /\ IF q = <<>>
           THEN /\ DlFinish(t, "IndexError", TRUE)
                /\ call' = [call EXCEPT ![t] = Ended(c, "IndexError")]
                /\ UNCHANGED <<sessions, popped>>
           ELSE /\ sessions' = [sessions EXCEPT ![dev].dlQueue = Tail(q)]
                /\ popped' = popped \cup {dlMsg.id}
                /\ IF first /\ ~RxWindow1DataRateAsserts(c.ulDatarate)
                   THEN /\ DlFinish(t, "AssertionError", TRUE)
                        /\ call' = [call EXCEPT ![t] =
                                      Ended(popd, "AssertionError")]
                   ELSE /\ call' = [call EXCEPT ![t] =
                               [popd EXCEPT
                                  !.jsonDict =
                                     Descriptor(dlMsg, c.eouTimestamp,
                                                c.ulChannel, c.ulDatarate,
                                                c.ulCodingrate),
                                  !.eouTimestamp = None, !.ulChannel = None,
                                  !.ulDatarate = "none",
                                  !.ulCodingrate = "none"]]
                        /\ pc' = [pc EXCEPT ![t] = "dl_iter"]
                        /\ UNCHANGED result
        /\ UNCHANGED <<registryVars, nextMsgId, sentCount, nCalls>>

\* line 310, getGatewayForDownlink: iter(self.gateways)
DlIter(t) ==
    /\ pc[t] = "dl_iter"
    /\ call' = [call EXCEPT ![t].iterLen =
                  Cardinality(sessions[call[t].dev].gateways)]
    /\ pc' = [pc EXCEPT ![t] = "dl_next"]
    /\ UNCHANGED <<registryVars, sessions, lock, result, ghostVars>>

\* line 310, getGatewayForDownlink: next(...): a set that changed size
\* since iter() raises RuntimeError, an empty one StopIteration
DlNext(t) ==
    LET gateways == sessions[call[t].dev].gateways
    IN  /\ pc[t] = "dl_next"
        /\ IF Cardinality(gateways) # call[t].iterLen
           THEN /\ DlFinish(t, "RuntimeError", TRUE)
                /\ call' = [call EXCEPT ![t] = Ended(call[t], "RuntimeError")]
           ELSE IF gateways = {}
           THEN /\ DlFinish(t, "StopIteration", TRUE)
                /\ call' = [call EXCEPT ![t] = Ended(call[t], "StopIteration")]
           ELSE /\ \E gw \in gateways :
                      call' = [call EXCEPT ![t].gwMacAddr = gw,
                                           ![t].iterLen = None]
                /\ pc' = [pc EXCEPT ![t] = "dl_log"]
                /\ UNCHANGED result
        /\ UNCHANGED <<registryVars, sessions, lock, ghostVars>>

\* lines 311-315: the log line formats dev.devAddr with %x
DlLog(t) ==
    /\ pc[t] = "dl_log"
    /\ IF sessions[call[t].dev].devAddr = None
       THEN /\ DlFinish(t, "TypeError", TRUE)
            /\ call' = [call EXCEPT ![t] = Ended(call[t], "TypeError")]
       ELSE /\ pc' = [pc EXCEPT ![t] = "dl_send"]
            /\ UNCHANGED <<result, call>>
    /\ UNCHANGED <<registryVars, sessions, lock, ghostVars>>

\* lines 316-319: the sender is called, or its absence logged
DlSend(t) ==
    LET id == call[t].dlMsg.id
    IN  /\ pc[t] = "dl_send"
        /\ IF sendToGateway # "None"
           THEN sentCount' =
                     [i \in DOMAIN sentCount \cup {id} |->
                        IF i \in DOMAIN sentCount
                        THEN sentCount[i] + (IF i = id THEN 1 ELSE 0)
                        ELSE 1]
           ELSE UNCHANGED sentCount
        /\ call' = [call EXCEPT ![t] = Ended(call[t], "None")]
        /\ DlFinish(t, "None", FALSE)
        /\ UNCHANGED <<registryVars, sessions, lock, nextMsgId, popped, nCalls>>

(* ------------------------ direct putDownlinkMsg ------------------------ *)
\* a producer's call of dev.putDownlinkMsg(DownlinkMessage(payload, rxWindow))
DirectPut(t, dev, rxWindow) ==
    /\ Idle(t)
    /\ dev \in DOMAIN sessions
    /\ CanAcquire(dev, t)
    /\ LET msg == DownlinkMessage(nextMsgId, <<"data">>, 1, rxWindow)
       IN  /\ sessions' = putDownlinkMsg(dev, msg)
           /\ call' = [call EXCEPT ![t] =
                         [NoCall EXCEPT !.kind = "put", !.dev = dev,
                                        !.dlMsg = msg]]
    /\ nextMsgId' = nextMsgId + 1
    /\ pc' = [pc EXCEPT ![t] = "done"]
    /\ result' = [result EXCEPT ![t] = "None"]
    /\ UNCHANGED <<registryVars, lock, popped, sentCount>>

ApiPut(t) ==
    /\ nCalls < MaxCalls
    /\ nCalls' = nCalls + 1
    /\ \E dev \in Objs, w \in {RX_WINDOW_1, RX_WINDOW_2} : DirectPut(t, dev, w)

(* ------------------------------- Spec --------------------------------- *)
Next ==
    \/ Register
    \/ \E t \in Threads :
        \/ RxStart(t)
        \/ JoinAcquire(t)
        \/ GenDevAddr(t)
        \/ JoinMapInsert(t)
        \/ JoinSetAddr(t)
        \/ JoinSetJoined(t)
        \/ JoinPut(t)
        \/ Bind(t)
        \/ ApiDoDownlink(t)
        \/ DlAcquire(t)
        \/ DlCheck(t)
        \/ DlPop(t)
        \/ DlIter(t)
        \/ DlNext(t)
        \/ DlLog(t)
        \/ DlSend(t)
        \/ ApiPut(t)

Spec == Init /\ [][Next]_vars

(* ------------------- the end-to-end scenario (C4) --------------------- *)
\* devices are registered and one thread submits uplinks, one after the
\* other; nothing else produces or schedules downlinks
NextE2E ==
    \/ Register
    \/ RxStart("t1")
    \/ JoinAcquire("t1")
    \/ GenDevAddr("t1")
    \/ JoinMapInsert("t1")
    \/ JoinSetAddr("t1")
    \/ JoinSetJoined("t1")
    \/ JoinPut("t1")
    \/ Bind("t1")
    \/ DlAcquire("t1")
    \/ DlCheck("t1")
    \/ DlPop("t1")
    \/ DlIter("t1")
    \/ DlNext("t1")
    \/ DlLog("t1")
    \/ DlSend("t1")

SpecE2E == Init /\ [][NextE2E]_vars

(* ------------------- one session's queue filled (C6) ------------------ *)
\* the state in which SpecE2E leaves the server once one device has been
\* registered and its join-request, received by gateway gwA, handled with a
\* sender configured
InitQueue ==
    LET nid == AndMask(131, NetworkIDMask)
        devAddr == OrDisjoint(ShiftLeft(nid, NetworkAddrBits), 0)
        joinAccept == JoinAcceptMessage(1, "key0", 0, nid, devAddr)
    IN  /\ configuredNetworkID = 131
        /\ networkID = nid
        /\ netID = nid
        /\ sendToGateway = "fn"
        /\ euiToDevMap = (<<1, 2>> :> 1)
        /\ addrToDevMap = (devAddr :> 1)
        /\ sessions =
             << [LoRaEndDevice(1, 2, "key0") EXCEPT
                   !.devAddr = devAddr,
                   !.nwkSKeyStr = deriveSessionKey("key0", 1, 0, nid, 7),
                   !.appSKeyStr = deriveSessionKey("key0", 2, 0, nid, 7),
                   !.joined = TRUE,
                   !.gateways = {"gwA"}] >>
        /\ lock = << [owner |-> "free", count |-> 0] >>
        /\ pc = [t \in Threads |-> IF t = "t1" THEN "done" ELSE "idle"]
        /\ call = [t \in Threads |->
                     IF t = "t1"
                     THEN [NoCall EXCEPT !.kind = "rx", !.dev = 1,
                                         !.dlMsg = joinAccept,
                                         !.dlResult = "None"]
                     ELSE NoCall]
        /\ result = [t \in Threads |-> IF t = "t1" THEN "None" ELSE "running"]
        /\ nextMsgId = 2
        /\ popped = {1}
        /\ sentCount = (1 :> 1)
        /\ nCalls = 1

\* from there one thread puts messages on the session's queue and
\* schedules downlinks, any number of times
QueuePut(t) ==
    /\ nextMsgId <= MaxQueuePuts
    /\ \E dev \in Objs : DirectPut(t, dev, RX_WINDOW_2)
    /\ UNCHANGED nCalls

QueueDoDownlink(t) ==
    /\ \E dev \in Objs :
          StartDoDownlink(t, dev, 1000,
                          getUplinkChannelFromFreq("SF10BW125", 9025),
                          "SF10BW125", "4/5")
    /\ UNCHANGED nCalls

NextQueue ==
    \/ QueuePut("t1")
    \/ QueueDoDownlink("t1")
    \/ DlAcquire("t1")
    \/ DlCheck("t1")
    \/ DlPop("t1")
    \/ DlIter("t1")
    \/ DlNext("t1")
    \/ DlLog("t1")
    \/ DlSend("t1")

SpecQueue == InitQueue /\ [][NextQueue]_vars

(* ------------- descriptors for every window tag (C16) ----------------- *)
\* the arguments a scheduler passes to doDownlinkToDev
WindowTags ==
    {RX_WINDOW_1, RX_WINDOW_2, JOIN_ACCEPT_WINDOW_1, JOIN_ACCEPT_WINDOW_2}
DownlinkTmsts == {1000, 2000000000}
DownlinkFreqs == {9023, 9025, 9041}
DownlinkCodingrates == {"4/5", "4/6"}

\* from the state after one join a producer puts messages with any window
\* tag on the session's queue
WindowPut(t) ==
    /\ nextMsgId <= MaxWindowPuts
    /\ \E dev \in Objs, rxWindow \in WindowTags : DirectPut(t, dev, rxWindow)
    /\ UNCHANGED nCalls

\* and a scheduler calls doDownlinkToDev with any uplink parameters
WindowDoDownlink(t) ==
    /\ \E dev \in Objs, eouTimestamp \in DownlinkTmsts,
          ulFreq \in DownlinkFreqs, ulDatarate \in Datarates,
          ulCodingrate \in DownlinkCodingrates :
          StartDoDownlink(t, dev, eouTimestamp,
                          getUplinkChannelFromFreq(ulDatarate, ulFreq),
                          ulDatarate, ulCodingrate)
    /\ UNCHANGED nCalls

NextDescriptor ==
    \/ WindowPut("t1")
    \/ WindowDoDownlink("t1")
    \/ DlAcquire("t1")
    \/ DlCheck("t1")
    \/ DlPop("t1")
    \/ DlIter("t1")
    \/ DlNext("t1")
    \/ DlLog("t1")
    \/ DlSend("t1")

SpecDescriptor == InitQueue /\ [][NextDescriptor]_vars

(* ------------------ the pure functions (C17, C18) --------------------- *)
\* datarates and frequencies on the grid of each upstream plan, from
\* MaxChannelOffset channels below the lowest one to as many above the
\* highest
ChannelInputs ==
    {<<d, UPSTREAM_BW125_LOWEST_FREQ + UPSTREAM_BW125_SPACING * k>> :
        d \in {"SF10BW125", "SF7BW125"},
        k \in (0 - MaxChannelOffset)
               ..(UPSTREAM_BW125_NUM_CHAN - 1 + MaxChannelOffset)}
    \cup
    {<<d, UPSTREAM_BW500_LOWEST_FREQ + UPSTREAM_BW500_SPACING * k>> :
        d \in {"SF10BW500", "SF8BW500"},
        k \in (0 - MaxChannelOffset)
               ..(UPSTREAM_BW500_NUM_CHAN - 1 + MaxChannelOffset)}

\* buffers of every length up to MaxPadLen, of zero or of non-zero bytes
PadInputs ==
    {[i \in 1..n |-> fill] : n \in 0..MaxPadLen, fill \in {0, 255}}

\* the frames of the calls about to be made
PureCalls ==
    {[NoCall EXCEPT !.kind = "channel", !.ulDatarate = in[1],
                    !.ulFreqMHz = in[2]] : in \in ChannelInputs}
    \cup {[NoCall EXCEPT !.kind = "pad", !.byteStr = byteStr] :
             byteStr \in PadInputs}

\* a server just constructed, and thread t1 about to call one of the two
\* functions with one of these arguments
InitPure ==
    /\ configuredNetworkID \in ConfiguredNetworkIDs
    /\ networkID = AndMask(configuredNetworkID, NetworkIDMask)
    /\ netID = networkID
    /\ sendToGateway = "fn"
    /\ euiToDevMap = <<>>
    /\ addrToDevMap = <<>>
    /\ sessions = <<>>
    /\ lock = <<>>
    /\ pc = [t \in Threads |-> IF t = "t1" THEN "pure" ELSE "idle"]
    /\ call \in {[t \in Threads |-> IF t = "t1" THEN c ELSE NoCall] :
                   c \in PureCalls}
    /\ result = [t \in Threads |-> "running"]
    /\ nextMsgId = 1
    /\ popped = {}
    /\ sentCount = <<>>
    /\ nCalls = 0

\* self.getUplinkChannelFromFreq(ulDatarate, ulFreqMHz)
ChannelApply(t) ==
    /\ pc[t] = "pure" /\ call[t].kind = "channel"
    /\ call' = [call EXCEPT ![t].ulChannel =
                  getUplinkChannelFromFreq(call[t].ulDatarate,
                                           call[t].ulFreqMHz)]
    /\ pc' = [pc EXCEPT ![t] = "done"]
    /\ result' = [result EXCEPT ![t] = "returned"]
    /\ UNCHANGED <<registryVars, sessions, lock, ghostVars>>

\* self.padToBlockSize(byteStr): the buffer is returned or the assertion
\* fails
PadApply(t) ==
    LET buf == padToBlockSize(call[t].byteStr)
    IN  /\ pc[t] = "pure" /\ call[t].kind = "pad"
        /\ IF PadToBlockSizeAsserts(buf)
           THEN /\ call' = [call EXCEPT ![t].buf = buf]
                /\ result' = [result EXCEPT ![t] = "returned"]
           ELSE /\ UNCHANGED call
                /\ result' = [result EXCEPT ![t] = "AssertionError"]
        /\ pc' = [pc EXCEPT ![t] = "done"]
        /\ UNCHANGED <<registryVars, sessions, lock, ghostVars>>

NextPure ==
    \/ ChannelApply("t1")
    \/ PadApply("t1")

SpecPure == InitPure /\ [][NextPure]_vars

(* ------------------- the address space used up (C14) ------------------ *)
\* from the same state the threads submit join-requests with a valid MIC,
\* any number of times
AllocRxStart(t) ==
    /\ Idle(t)
    /\ \E up \in Uplinks :
          /\ RxOutcome(up) = "join"
          /\ RxAccept(t, GatewayOf(t), up)
    /\ UNCHANGED nCalls

\* what one thread does of a call of processRawRxPayload once begun
AllocStep(t) ==
    \/ JoinAcquire(t)
    \/ GenDevAddr(t)
    \/ JoinMapInsert(t)
    \/ JoinSetAddr(t)
    \/ JoinSetJoined(t)
    \/ JoinPut(t)
    \/ Bind(t)
    \/ DlAcquire(t)
    \/ DlCheck(t)
    \/ DlPop(t)
    \/ DlIter(t)
    \/ DlNext(t)
    \/ DlLog(t)
    \/ DlSend(t)

NextAlloc ==
    \E t \in Threads :
        \/ AllocRxStart(t)
        \/ AllocStep(t)

\* every thread that can take a step of its call eventually takes one, and
\* random.randint is fair: a candidate that is no key of addrToDevMap, if
\* it can be drawn again and again, is eventually drawn
SpecAlloc ==
    /\ InitQueue
    /\ [][NextAlloc]_vars
    /\ \A t \in Threads :
          /\ WF_vars(AllocStep(t) /\ pc'[t] # pc[t])
          /\ SF_vars(GenDevAddr(t) /\ pc'[t] = "hj_map")

(* ======================== the claims, C1 - C10 ======================== *)
\* thread t is inside the join transaction of session dev: it holds the
\* lock taken at line 376
InJoinTransaction(t, dev) ==
    /\ call[t].dev = dev
    /\ pc[t] \in {"hj_gen", "hj_map", "hj_addr", "hj_joined", "hj_put"}

\* C1: in every reachable state, a session that no thread has inside its
\* join transaction has its devAddr set if and only if its joined flag is
\* True
C1_AddrIffJoined ==
    \A dev \in DOMAIN sessions :
        (~ \E t \in Threads : InJoinTransaction(t, dev))
            => ((sessions[dev].devAddr # None) <=> sessions[dev].joined)

\* C1 witness: a handler has returned from a join, its session is joined
\* with an address and outside any transaction, and another session is
\* still unjoined without one
C1_Witness ==
    \E t \in Threads, other \in DOMAIN sessions :
        /\ pc[t] = "done" /\ call[t].kind = "rx" /\ result[t] = "None"
        /\ sessions[call[t].dev].joined
        /\ sessions[call[t].dev].devAddr # None
        /\ ~ \E t2 \in Threads : InJoinTransaction(t2, call[t].dev)
        /\ ~sessions[other].joined /\ sessions[other].devAddr = None

\* C2: no two distinct joined sessions hold the same devAddr
C2_NoSharedAddr ==
    \A d1 \in DOMAIN sessions, d2 \in DOMAIN sessions :
        (d1 # d2 /\ sessions[d1].joined /\ sessions[d2].joined)
            => sessions[d1].devAddr # sessions[d2].devAddr

\* C3: every key of addrToDevMap, every session's devAddr and every address
\* genDevAddr has returned to a thread has, as its bits 25..31, the
\* configured network identifier's low 7 bits
C3_Top7IsNetworkID ==
    LET nid == configuredNetworkID % 128
        Good(a) == a >= 0 /\ a \div 33554432 = nid
    IN  /\ \A a \in DOMAIN addrToDevMap : Good(a)
        /\ \A dev \in DOMAIN sessions :
              sessions[dev].devAddr # None => Good(sessions[dev].devAddr)
        /\ \A t \in Threads : call[t].devAddr # None => Good(call[t].devAddr)

\* C3 witness: two addresses are keys of the map, and a session holds one
C3_Witness ==
    /\ Cardinality(DOMAIN addrToDevMap) >= 2
    /\ \E dev \in DOMAIN sessions :
          sessions[dev].devAddr \in DOMAIN addrToDevMap

\* the handler of thread t has ended after running the join transaction
JoinHandled(t) ==
    /\ pc[t] = "done" /\ call[t].kind = "rx"
    /\ call[t].dev # None /\ result[t] # "-2"

\* C4 (as amended): in the end-to-end scenario, when the handler has ended
\* after a valid join-request (returning success, or raising the assertion
\* of getRxWindow1DataRate), the session is Joined, holds an address with
\* top 7 bits equal to the network identifier that addrToDevMap maps to it,
\* and its downlink queue is empty: the one message the join transaction
\* queued, tagged with the first join-accept window, has been popped by the
\* handler's own doDownlinkToDev, and on success handed to the configured
\* sender exactly once
C4_JoinEndToEnd ==
    \A t \in Threads :
        JoinHandled(t) =>
            LET dev == call[t].dev
                a == sessions[dev].devAddr
                m == call[t].dlMsg
            IN  /\ result[t] \in {"None", "AssertionError"}
                /\ sessions[dev].joined
                /\ a # None /\ a \div 33554432 = configuredNetworkID % 128
                /\ a \in DOMAIN addrToDevMap /\ addrToDevMap[a] = dev
                /\ sessions[dev].dlQueue = <<>>
                /\ m # NoMsg
                /\ m.rxWindow = JOIN_ACCEPT_WINDOW_1
                /\ m.id \in popped
                /\ (result[t] = "None" /\ sendToGateway # "None")
                      => (m.id \in DOMAIN sentCount /\ sentCount[m.id] = 1)
                /\ result[t] = "AssertionError" => m.id \notin DOMAIN sentCount

\* C4 witness: a handler has returned success after a join, the join-accept
\* went to the sender once and the queue is empty
C4_Witness ==
    \E t \in Threads :
        /\ JoinHandled(t) /\ result[t] = "None"
        /\ sessions[call[t].dev].joined
        /\ sessions[call[t].dev].dlQueue = <<>>
        /\ call[t].dlMsg.rxWindow = JOIN_ACCEPT_WINDOW_1
        /\ call[t].dlMsg.id \in DOMAIN sentCount

\* C4 as stated: whenever the handler has returned success after a join,
\* the session is Joined with an address of the network and its downlink
\* queue holds exactly one message, tagged with the first join-accept window
C4_QueueHoldsJoinAccept ==
    \A t \in Threads :
        (JoinHandled(t) /\ result[t] = "None") =>
            LET dev == call[t].dev
                a == sessions[dev].devAddr
            IN  /\ sessions[dev].joined
                /\ a # None /\ a \div 33554432 = configuredNetworkID % 128
                /\ Len(sessions[dev].dlQueue) = 1
                /\ sessions[dev].dlQueue[1].rxWindow = JOIN_ACCEPT_WINDOW_1

\* thread t's current or last call has popped a message
HasPopped(t) == call[t].kind \in {"rx", "dl"} /\ call[t].dlMsg # NoMsg

\* C5: under every interleaving, popleft() is never run on an empty queue
\* (no doDownlinkToDev ends in IndexError, and a thread between the
\* emptiness test and the pop finds the queue non-empty), a message a
\* thread has popped is in
\* no queue and is held by no other thread, and no message is handed to the
\* sender more than once
C5_ConsumedOnce ==
    /\ \A t \in Threads : call[t].dlResult # "IndexError"
    /\ \A t \in Threads : pc[t] = "dl_pop" => hasPendingDownlink(call[t].dev)
    /\ \A t1 \in Threads, t2 \in Threads :
          (t1 # t2 /\ HasPopped(t1) /\ HasPopped(t2))
              => call[t1].dlMsg.id # call[t2].dlMsg.id
    /\ \A dev \in DOMAIN sessions :
          \A i \in 1..Len(sessions[dev].dlQueue) :
              sessions[dev].dlQueue[i].id \notin popped
    /\ \A t \in Threads : HasPopped(t) => call[t].dlMsg.id \in popped
    /\ \A id \in DOMAIN sentCount : sentCount[id] <= 1 /\ id \in popped

\* C5 witness: two threads have each popped a message of the same session;
\* one has handed its message to the sender and the other is about to
C5_Witness ==
    \E t1 \in Threads, t2 \in Threads :
        /\ t1 # t2 /\ call[t1].dev = call[t2].dev
        /\ HasPopped(t1) /\ HasPopped(t2)
        /\ call[t1].dlMsg.id \in DOMAIN sentCount
        /\ pc[t2] = "dl_send"

\* the identifiers of the messages in a queue, oldest first
QueueIds(dev) ==
    [i \in 1..Len(sessions[dev].dlQueue) |-> sessions[dev].dlQueue[i].id]

\* C6: a session's queue never holds more than 32 messages, and what it
\* holds is, oldest first, exactly the messages among the 32 most recently
\* put on it that have not been popped: a put on a full queue succeeds,
\* drops the oldest message and appends the new one
C6_QueueBounded ==
    \A dev \in DOMAIN sessions :
        LET ids == QueueIds(dev)
            n == Len(ids)
            last == nextMsgId - 1
        IN  /\ n <= DOWNLINK_QUEUE_MAX_SIZE
            /\ \A i \in 1..n : ids[i] \in 1..last /\ ids[i] \notin popped
            /\ \A i \in 1..(n - 1) : ids[i] < ids[i + 1]
            /\ \A id \in 1..last :
                  (id \notin popped /\ id > last - DOWNLINK_QUEUE_MAX_SIZE)
                      => \E i \in 1..n : ids[i] = id
            /\ \A i \in 1..n : ids[i] > last - DOWNLINK_QUEUE_MAX_SIZE

\* C6 witness: the queue holds 32 messages, the newest of them the one put
\* last, and a message that was never popped is no longer in it
C6_Witness ==
    \E dev \in DOMAIN sessions :
        /\ Len(sessions[dev].dlQueue) = DOWNLINK_QUEUE_MAX_SIZE
        /\ sessions[dev].dlQueue[DOWNLINK_QUEUE_MAX_SIZE].id = nextMsgId - 1
        /\ \E id \in 1..(nextMsgId - 1) :
              /\ id \notin popped
              /\ \A i \in 1..DOWNLINK_QUEUE_MAX_SIZE :
                    sessions[dev].dlQueue[i].id # id

\* C7: a doDownlinkToDev that finds the session's queue empty ends at that
\* step with the result 0 ("nothing scheduled"): neither that step nor the
\* taking of the lock before it changes a session, the registry, or what
\* has been popped or handed to the sender
C7_EmptyQueueNoop ==
    [][\A t \in Threads :
          /\ (pc[t] = "dl_acquire" /\ pc'[t] # pc[t])
                => UNCHANGED <<registryVars, sessions, popped, sentCount,
                               nextMsgId>>
          /\ (/\ pc[t] = "dl_check" /\ pc'[t] # pc[t]
              /\ Len(sessions[call[t].dev].dlQueue) = 0)
                => /\ pc'[t] = "done"
                   /\ call'[t].dlResult = "0"
                   /\ call[t].kind = "dl" => result'[t] = "0"
                   /\ call[t].kind = "rx" => result'[t] = "None"
                   /\ lock'[call[t].dev].owner = "free"
                   /\ UNCHANGED <<registryVars, sessions, popped, sentCount,
                                  nextMsgId>>]_vars

\* C7 witness: a direct doDownlinkToDev on a joined session with a gateway
\* and a sender has returned 0
C7_Witness ==
    \E t \in Threads :
        /\ pc[t] = "done" /\ call[t].kind = "dl" /\ result[t] = "0"
        /\ sessions[call[t].dev].joined
        /\ sessions[call[t].dev].gateways # {}
        /\ sendToGateway = "fn"

\* C8: a thread about to call the sender owns no session's lock, and a
\* lock that nobody owns has count zero
C8_SendOutsideLock ==
    /\ \A t \in Threads :
          pc[t] = "dl_send" => \A dev \in DOMAIN lock : lock[dev].owner # t
    /\ \A dev \in DOMAIN lock :
          (lock[dev].owner = "free") <=> (lock[dev].count = 0)

\* C8 witness: one thread is about to call the sender, from a direct
\* doDownlinkToDev or from processRawRxPayload, while another thread is
\* inside a locked block of the same session
C8_Witness ==
    \E t \in Threads, u \in Threads :
        /\ pc[t] = "dl_send" /\ call[t].kind = "rx"
        /\ u # t /\ call[u].dev = call[t].dev
        /\ Holds(call[u].dev, u)

\* the control points whose next step reads or writes a mutable field of
\* the call's session
SessionAccessPcs ==
    {"hj_addr", "hj_joined", "hj_put", "bind", "dl_check", "dl_pop",
     "dl_iter", "dl_next", "dl_log"}

\* C9: a thread whose next step reads or writes a mutable field of a
\* session holds that session's lock, so no thread reads the gateway set
\* without the lock while another one is about to add to it
C9_AccessUnderLock ==
    /\ \A t \in Threads :
          pc[t] \in SessionAccessPcs => Holds(call[t].dev, t)
    /\ \A t \in Threads, u \in Threads :
          ~ (/\ t # u /\ call[t].dev = call[u].dev
             /\ pc[t] \in {"dl_iter", "dl_next"} /\ ~Holds(call[t].dev, t)
             /\ pc[u] = "bind")

\* the uplinks the handler is to reject: whole frames that are a
\* join-request of an unregistered pair, a join-request whose MIC is not
\* the one computed under the session's AppKey, or not a join-request
Rejected(up) ==
    /\ up.shape = "whole"
    /\ \/ MType(up.mhdrByte) # MTYPE_JOIN_REQUEST
       \/ <<up.appEUI, up.devEUI>> \notin DOMAIN euiToDevMap
       \/ up.mic # computeJoinMic(
                      sessions[euiToDevMap[<<up.appEUI, up.devEUI>>]].appKeyStr,
                      JoinRequestBytes(up.mhdrByte, up.appEUI, up.devEUI,
                                       up.devNonce))

\* C10: in every state the handler gives every such frame an error
\* result, -1 or -2, and
\* the step in which a thread's processRawRxPayload ends with an error
\* result changes neither the registry nor any session, lock or queue,
\* creates no message and hands nothing to the sender
C10_RejectChangesNothing ==
    /\ [](\A up \in Uplinks : RxOutcome(up) \in {"-1", "-2"} \/ ~Rejected(up))
    /\ [][\A t \in Threads :
            (/\ Idle(t) /\ nCalls' = nCalls + 1
             /\ pc'[t] = "done" /\ call'[t].kind = "rx"
             /\ result'[t] \in {"-1", "-2"}
             /\ \A u \in Threads \ {t} :
                   pc'[u] = pc[u] /\ call'[u] = call[u]
                   /\ result'[u] = result[u])
               => UNCHANGED <<registryVars, sessions, lock, popped,
                              sentCount, nextMsgId>>]_vars

\* C10 witness: a join-request with a wrong MIC has been rejected for a
\* joined session whose queue holds a pending downlink
C10_Witness ==
    \E t \in Threads :
        /\ pc[t] = "done" /\ call[t].kind = "rx" /\ result[t] = "-2"
        /\ call[t].dev # None
        /\ sessions[call[t].dev].joined
        /\ Len(sessions[call[t].dev].dlQueue) > 0

\* C11: a doDownlinkToDev that popped a pending message while no sender
\* callback is configured ends with a result different from the result of
\* a successful downlink (None)
C11_NoSenderSurfaced ==
    \A t \in Threads :
        (/\ pc[t] = "done" /\ call[t].kind = "dl"
         /\ call[t].dlMsg # NoMsg /\ call[t].dlResult = "None"
         /\ sendToGateway = "None")
            => result[t] # "None"

\* C12: no processRawRxPayload call ends with an assertion failure,
\* whatever uplink it was given
C12_NoAssertionFromUplink ==
    \A t \in Threads :
        (pc[t] = "done" /\ call[t].kind = "rx")
            => result[t] # "AssertionError"

\* a whole join-request of a registered device with a valid MIC
ValidJoinRequest(up) ==
    /\ up.shape = "whole"
    /\ up.mhdrByte \div 32 = 0
    /\ <<up.appEUI, up.devEUI>> \in DOMAIN euiToDevMap
    /\ up.mic = computeJoinMic(
                   sessions[euiToDevMap[<<up.appEUI, up.devEUI>>]].appKeyStr,
                   JoinRequestBytes(up.mhdrByte, up.appEUI, up.devEUI,
                                    up.devNonce))

\* the steps of the join transaction, in the order of the code
JoinOrder ==
    [hj_acquire |-> "hj_gen", hj_gen |-> "hj_map", hj_map |-> "hj_addr",
     hj_addr |-> "hj_joined", hj_joined |-> "hj_put", hj_put |-> "bind"]

\* C13: in every state, whether or not the session is joined, the handler
\* takes every join-request with a valid MIC of a registered device into
\* the join transaction; a transaction, once begun, runs all its steps in
\* order; no session ever leaves Joined; the address genDevAddr returns is
\* no key of the address map and differs from the address the session
\* held; that address becomes the session's, both session keys are assigned
\* from the transaction's nonces, the session is Joined, and a new message
\* tagged with the first join-accept window carrying that address is
\* appended to the session's queue
C13_RejoinUnconditional ==
    /\ [](\A up \in Uplinks : ValidJoinRequest(up) => RxOutcome(up) = "join")
    /\ [][\A d \in DOMAIN sessions :
            sessions[d].joined => sessions'[d].joined]_vars
    /\ [][\A t \in Threads :
            (pc[t] \in DOMAIN JoinOrder /\ pc'[t] # pc[t]) =>
               LET dev == call[t].dev
                   key == sessions[dev].appKeyStr
                   q == sessions'[dev].dlQueue
               IN  /\ pc'[t] = JoinOrder[pc[t]]
                   /\ pc[t] = "hj_gen" =>
                         /\ call'[t].devAddr # None
                         /\ call'[t].devAddr \notin DOMAIN addrToDevMap
                         /\ call'[t].devAddr # sessions[dev].devAddr
                   /\ pc[t] = "hj_map" =>
                         /\ call[t].devAddr \in DOMAIN addrToDevMap'
                         /\ addrToDevMap'[call[t].devAddr] = dev
                   /\ pc[t] = "hj_addr" =>
                         /\ sessions'[dev].devAddr = call[t].devAddr
                         /\ sessions'[dev].nwkSKeyStr =
                               deriveSessionKey(key, 1, call'[t].appNonce,
                                                netID, call[t].devNonce)
                         /\ sessions'[dev].appSKeyStr =
                               deriveSessionKey(key, 2, call'[t].appNonce,
                                                netID, call[t].devNonce)
                   /\ pc[t] = "hj_joined" => sessions'[dev].joined
                   /\ pc[t] = "hj_put" =>
                         /\ sessions'[dev].joined
                         /\ sessions'[dev].devAddr = call[t].devAddr
                         /\ q # <<>>
                         /\ q[Len(q)].id = nextMsgId
                         /\ nextMsgId' = nextMsgId + 1
                         /\ q[Len(q)].rxWindow = JOIN_ACCEPT_WINDOW_1
                         /\ q[Len(q)].payloadBase64 =
                               JoinAcceptMessage(nextMsgId, key,
                                                 call[t].appNonce, netID,
                                                 call[t].devAddr).payloadBase64]_vars

\* C13 witness: a session that was Joined has been through a second join
\* transaction: two keys of the address map refer to it, it holds the
\* later of the two addresses, and the transaction's thread has queued its
\* join-accept
C13_Witness ==
    \E t \in Threads :
        /\ pc[t] = "bind" /\ call[t].kind = "rx"
        /\ LET dev == call[t].dev
               q == sessions[dev].dlQueue
           IN  /\ sessions[dev].joined
               /\ Cardinality({a \in DOMAIN addrToDevMap :
                                  addrToDevMap[a] = dev}) = 2
               /\ q # <<>>
               /\ q[Len(q)].rxWindow = JOIN_ACCEPT_WINDOW_1

\* C14: every call of genDevAddr eventually returns an address
C14_GenDevAddrReturns ==
    \A t \in Threads : (pc[t] = "hj_gen") ~> (pc[t] = "hj_map")

\* C15: no processRawRxPayload call ends with a lower-level fault of the
\* metadata lookup or of the payload decoding: KeyError, IndexError or
\* struct.error
C15_MalformedIsErrorResult ==
    \A t \in Threads :
        (pc[t] = "done" /\ call[t].kind = "rx" /\ call[t].dlMsg = NoMsg)
            => result[t] \notin {"KeyError", "IndexError", "struct.error"}

\* the reference delay of a window tag, in microseconds
ReferenceDelay(rxWindow) ==
    CASE rxWindow = 1 -> 1000000
      [] rxWindow = 2 -> 1000000 + 1000000
      [] rxWindow = 3 -> 5000000
      [] rxWindow = 4 -> 6000000

\* the reference radio settings: the downstream plan has 8 channels of
\* 500 kHz, 923.3 MHz and up, 600 kHz apart, and answers SF10BW125 with
\* SF10BW500; the second window is the session's RX2 configuration
ReferenceRadio(rxWindow, ulChannel, ulDatarate, ulCodingrate) ==
    IF rxWindow \in {1, 3}
    THEN [freq |-> 9233 + 6 * (ulChannel % 8),
          datr |-> IF ulDatarate = "SF10BW125" THEN "SF10BW500"
                   ELSE "unsupported",
          codr |-> ulCodingrate]
    ELSE [freq |-> 9233, datr |-> "SF10BW500", codr |-> "4/5"]

\* C16: the step of doDownlinkToDev that pops a message and builds its
\* descriptor gives the descriptor the timestamp "end of uplink plus the
\* reference delay of the message's window tag" and the reference
\* frequency, datarate and coding rate of that tag, and the message's size
\* and data
C16_DescriptorIsReference ==
    [][\A t \in Threads :
         (pc[t] = "dl_pop" /\ pc'[t] = "dl_iter") =>
            LET c == call[t]
                dlMsg == Head(sessions[c.dev].dlQueue)
                jsonDict == call'[t].jsonDict
                radio == ReferenceRadio(dlMsg.rxWindow, c.ulChannel,
                                        c.ulDatarate, c.ulCodingrate)
            IN  /\ call'[t].dlMsg = dlMsg
                /\ jsonDict.tmst =
                      c.eouTimestamp + ReferenceDelay(dlMsg.rxWindow)
                /\ jsonDict.freq = radio.freq
                /\ jsonDict.datr = radio.datr
                /\ jsonDict.codr = radio.codr
                /\ jsonDict.size = dlMsg.payloadSize
                /\ jsonDict.data = dlMsg.payloadBase64]_vars

\* C16 witness: a descriptor has been built for a message of the first
\* data window from an uplink that ended at 2000000000 on channel 9 with
\* coding rate 4/6
C16_Witness ==
    /\ pc["t1"] = "dl_send"
    /\ call["t1"].dlMsg.rxWindow = RX_WINDOW_1
    /\ call["t1"].jsonDict.tmst = 2001000000
    /\ call["t1"].jsonDict.freq = 9239
    /\ call["t1"].jsonDict.codr = "4/6"

\* the reference channel of a frequency on the grid of the plan a datarate
\* selects: 64 channels from 902.3 MHz, 200 kHz apart, or, for a datarate
\* naming 500 kHz, 8 channels from 903.0 MHz, 1.6 MHz apart
ReferenceChannel(ulDatarate, ulFreq) ==
    IF ulDatarate \in {"SF10BW500", "SF8BW500"}
    THEN ((ulFreq - 9030) \div 16) % 8
    ELSE ((ulFreq - 9023) \div 2) % 64

\* C17: every call of getUplinkChannelFromFreq with a datarate and a
\* frequency on the grid of its plan returns, without raising, the
\* reference channel, a number in 0..63 for a 125 kHz datarate and in 0..7
\* for a 500 kHz one; 902.3 MHz is channel 0 and 902.5 MHz channel 1 at
\* SF10BW125, 903.0 MHz is channel 0 at SF10BW500
C17_ChannelInRange ==
    /\ \A t \in Threads :
          (pc[t] = "done" /\ call[t].kind = "channel") =>
             LET d == call[t].ulDatarate
                 f == call[t].ulFreqMHz
                 ch == call[t].ulChannel
             IN  /\ result[t] = "returned"
                 /\ ch = ReferenceChannel(d, f)
                 /\ d \in {"SF10BW125", "SF7BW125"} => ch \in 0..63
                 /\ d \in {"SF10BW500", "SF8BW500"} => ch \in 0..7
                 /\ (d = "SF10BW125" /\ f = 9023) => ch = 0
                 /\ (d = "SF10BW125" /\ f = 9025) => ch = 1
                 /\ (d = "SF10BW500" /\ f = 9030) => ch = 0

\* C17 witness: the function has been applied to a 125 kHz datarate and a
\* frequency three channels below the lowest channel and returned 61
C17_Witness ==
    /\ pc["t1"] = "done" /\ call["t1"].kind = "channel"
    /\ call["t1"].ulDatarate = "SF7BW125"
    /\ call["t1"].ulFreqMHz = 9017
    /\ call["t1"].ulChannel = 61

\* C18: every call of padToBlockSize returns, without failing its
\* assertion, a buffer whose length is the smallest multiple of 16 that is
\* at least the input's length, that begins with the input and goes on
\* with zero bytes only; an input whose length is a multiple of 16 comes
\* back unchanged
C18_PadToBlockSize ==
    \A t \in Threads :
        (pc[t] = "done" /\ call[t].kind = "pad") =>
           LET byteStr == call[t].byteStr
               buf == call[t].buf
               n == Len(byteStr)
           IN  /\ result[t] = "returned"
               /\ Len(buf) = 16 * ((n + 15) \div 16)
               /\ \A i \in 1..Len(buf) :
                     buf[i] = IF i <= n THEN byteStr[i] ELSE 0
               /\ n % 16 = 0 => buf = byteStr

\* C19: in every reachable state in which no thread is inside a join
\* transaction, addrToDevMap maps address a to session s if and only if s
\* is joined and s.devAddr is a
C19_MapAgreesWithSessions ==
    (~ \E t \in Threads, dev \in DOMAIN sessions : InJoinTransaction(t, dev))
        => \A s \in DOMAIN sessions :
              \A a \in DOMAIN addrToDevMap \cup {sessions[s].devAddr} :
                 (a \in DOMAIN addrToDevMap /\ addrToDevMap[a] = s)
                    <=> (sessions[s].joined /\ sessions[s].devAddr = a)

\* C20: when two threads process valid join-requests of the same device,
\* the join-accept a thread is about to hand to the gateway sender is the
\* message that thread's own join transaction queued
C20_OwnJoinAccept ==
    \A t \in Threads :
        (/\ pc[t] = "dl_send" /\ call[t].kind = "rx"
         /\ \E u \in Threads \ {t} :
               /\ call[u].kind = "rx" /\ call[u].dev = call[t].dev
               /\ call[u].putMsgId # None \/ call[u].dlMsg # NoMsg)
            => call[t].dlMsg.id = call[t].putMsgId

====
